---------------------------- MODULE Spec2Model ----------------------------
(***************************************************************************)
(* Live-stream chat backend (src/backend/server.py): the connection        *)
(* registry StreamConnectionManager, the broadcast fan-out, the stream     *)
(* lifecycle routes create_stream / end_stream and the per-connection      *)
(* handler stream_chat_websocket.                                          *)
(*                                                                         *)
(* The program runs on one asyncio event loop: the code between two awaits *)
(* of a task runs without interruption, and at every await any other task  *)
(* may run.  Each action below is one such segment of one task: it starts  *)
(* where an await completes and ends at the task's next await.             *)
(***************************************************************************)
EXTENDS Integers, Sequences, FiniteSets, TLC

\* ------------------------------------------------------------------ bounds
NumConns   == 2      \* websocket connections opened in a run
NumEndReqs == 1      \* POST /streams/{id}/end requests in a run
NumCreateReqs == 2   \* POST /streams/create requests in a run
MaxEvents  == 1      \* inbound websocket frames handled in a run
MaxAdminOps == 2     \* admin ban / unban requests in a run
MaxChats   == 2      \* chat frames handled in a run of the chat history
MaxLimit   == 2      \* largest limit of a chat history request
MaxEnds    == 2      \* end_stream requests that reach the update in a run
NumLikeReqs == 2     \* like / unlike requests in a concurrent run

Conns      == 1..NumConns
EndReqs    == {NumConns + i : i \in 1..NumEndReqs}
CreateReqs == {NumConns + NumEndReqs + i : i \in 1..NumCreateReqs}
LikeReqs   == {NumConns + NumEndReqs + NumCreateReqs + i :
                  i \in 1..NumLikeReqs}
Tasks      == Conns \cup EndReqs

\* ------------------------------------------------------------- input sets
\* uuid4 strings are modelled as <<first 8 characters, rest>>.
Prefixes   == {"a", "b"}
UuidPool   == {<<"a", 1>>, <<"a", 2>>, <<"b", 1>>}
UnknownId  == <<"z", 0>>
WsChans    == {"a"}
Users      == {"h1", "u2", "adm"}
UserIds    == Users \cup {"nobody"}
VideoIds   == {"v1", "v0"}

VARIABLES
    active_connections,  \* StreamConnectionManager.active_connections
    stream_viewers,      \* StreamConnectionManager.stream_viewers
    pc,                  \* where each task is suspended
    chan,                \* channel_name path parameter of each connection
    wsOpen,              \* the peer of the connection has not closed it
    inbox,               \* the messages each peer has been sent, in order
    bc,                  \* each task's current (or last finished) broadcast call
    syncVal,             \* viewer_count argument of the pending update_one
    msgDoc,              \* msg_doc of the pending insert_one
    req,                 \* locals of each REST request (user, stream, stream_id)
    streams,             \* db.streams, in insertion order
    stream_messages,     \* db.stream_messages, in insertion order
    users,               \* db.users: id -> [is_banned, is_admin, counters]
    videos,              \* db.videos, in insertion order
    likes,               \* db.likes, in insertion order
    follows,             \* db.follows, in insertion order
    resp,                \* the last response of a chat history, like or follow request
    evLeft,              \* inbound frames still to come (bound)
    adminLeft,           \* admin requests still to come (bound)
    nbcast,              \* history: number of broadcast() invocations so far
    nmsg,                \* history: number of msg_doc ids generated so far
    joins, leaves, clamp \* history: connect / disconnect calls per channel

vars == <<active_connections, stream_viewers, pc, chan, wsOpen, inbox, bc,
          syncVal, msgDoc, req, streams, stream_messages, users, evLeft,
          adminLeft, nbcast, nmsg, joins, leaves, clamp, videos, likes,
          follows, resp>>

Max(a, b) == IF a >= b THEN a ELSE b

\* ------------------------------------------------- StreamConnectionManager
Reg == [active_connections |-> active_connections,
        stream_viewers     |-> stream_viewers]

Members(ac, channel_name) ==
    IF channel_name \in DOMAIN ac THEN ac[channel_name] ELSE {}

\* Mutant of connect: the count is raised only when the channel entry is made.
connect_CountOnlyOnCreate(reg, websocket, channel_name) ==
    LET known == channel_name \in DOMAIN reg.active_connections
        ac0 == IF known THEN reg.active_connections
               ELSE reg.active_connections @@ (channel_name :> {})
        sv0 == IF known THEN reg.stream_viewers
               ELSE [c \in DOMAIN reg.stream_viewers \cup {channel_name} |->
                        IF c = channel_name THEN 1 ELSE reg.stream_viewers[c]]
    IN  [active_connections |->
            [ac0 EXCEPT ![channel_name] = @ \cup {websocket}],
         stream_viewers |-> sv0]

\* Mutant of connect: on a channel the registry already holds, the count is
\* raised but the connection is not added to the set.
connect_ForgetsMember(reg, websocket, channel_name) ==
    IF channel_name \in DOMAIN reg.active_connections
    THEN [active_connections |-> reg.active_connections,
          stream_viewers |->
            [reg.stream_viewers EXCEPT ![channel_name] = @ + 1]]
    ELSE [active_connections |->
            reg.active_connections @@ (channel_name :> {websocket}),
          stream_viewers |-> reg.stream_viewers @@ (channel_name :> 1)]

\* Mutant of connect: the connection is added to the set, the count is left
\* for a later step.
connect_SetOnly(reg, websocket, channel_name) ==
    IF channel_name \in DOMAIN reg.active_connections
    THEN [active_connections |->
            [reg.active_connections EXCEPT ![channel_name] = @ \cup {websocket}],
          stream_viewers |-> reg.stream_viewers]
    ELSE [active_connections |->
            reg.active_connections @@ (channel_name :> {websocket}),
          stream_viewers |-> reg.stream_viewers @@ (channel_name :> 0)]

\* connect(), the part after "await websocket.accept()"
connect(reg, websocket, channel_name) ==
    LET ac0 == IF channel_name \in DOMAIN reg.active_connections
               THEN reg.active_connections
               ELSE reg.active_connections @@ (channel_name :> {})
        sv0 == IF channel_name \in DOMAIN reg.active_connections
               THEN reg.stream_viewers
               ELSE [c \in DOMAIN reg.stream_viewers \cup {channel_name} |->
                        IF c = channel_name THEN 0 ELSE reg.stream_viewers[c]]
    IN  [active_connections |->
            [ac0 EXCEPT ![channel_name] = @ \cup {websocket}],
         stream_viewers |->
            [sv0 EXCEPT ![channel_name] = @ + 1]]

\* Mutant of disconnect: the entries of a channel left empty are kept.
disconnect_KeepsEmptyChannel(reg, websocket, channel_name) ==
    IF channel_name \in DOMAIN reg.active_connections
    THEN [active_connections |->
            [reg.active_connections EXCEPT ![channel_name] = @ \ {websocket}],
          stream_viewers |->
            [reg.stream_viewers EXCEPT ![channel_name] = Max(0, @ - 1)]]
    ELSE reg

\* Mutant of disconnect: the count of every registered channel is lowered.
disconnect_EveryChannel(reg, websocket, channel_name) ==
    LET conns == [c \in DOMAIN reg.active_connections |->
                    reg.active_connections[c] \ {websocket}]
        keep  == {c \in DOMAIN conns : conns[c] # {}}
    IN  [active_connections |-> [c \in keep |-> conns[c]],
         stream_viewers |->
            [c \in keep |-> Max(0, reg.stream_viewers[c] - 1)]]

disconnect(reg, websocket, channel_name) ==
    IF channel_name \notin DOMAIN reg.active_connections THEN reg
    ELSE
      LET ac1 == [reg.active_connections EXCEPT
                     ![channel_name] = @ \ {websocket}]
          old == IF channel_name \in DOMAIN reg.stream_viewers
                 THEN reg.stream_viewers[channel_name] ELSE 1
          sv1 == [c \in DOMAIN reg.stream_viewers \cup {channel_name} |->
                     IF c = channel_name THEN Max(0, old - 1)
                     ELSE reg.stream_viewers[c]]
      IN  IF ac1[channel_name] = {}
          THEN [active_connections |->
                   [c \in DOMAIN ac1 \ {channel_name} |-> ac1[c]],
                stream_viewers |->
                   [c \in DOMAIN sv1 \ {channel_name} |-> sv1[c]]]
          ELSE [active_connections |-> ac1, stream_viewers |-> sv1]

\* Mutant of get_viewer_count: the default for an unknown channel is 1.
get_viewer_count_DefaultOne(reg, channel_name) ==
    IF channel_name \in DOMAIN reg.stream_viewers
    THEN reg.stream_viewers[channel_name]
    ELSE 1

get_viewer_count(reg, channel_name) ==
    IF channel_name \in DOMAIN reg.stream_viewers
    THEN reg.stream_viewers[channel_name] ELSE 0

\* "for conn in disconnected: self.disconnect(conn, channel_name)"
RECURSIVE DisconnectAll(_, _, _)
DisconnectAll(reg, disconnected, channel_name) ==
    IF disconnected = << >> THEN reg
    ELSE DisconnectAll(disconnect(reg, Head(disconnected), channel_name),
                       Tail(disconnected), channel_name)


\* ---------------------------------------------------------------- messages
ViewerJoined(username, n) ==
    [type |-> "viewer_joined", username |-> username, viewer_count |-> n]
ViewerLeft(username, n) ==
    [type |-> "viewer_left", username |-> username, viewer_count |-> n]
ChatMsg(doc) ==
    [type |-> "chat", id |-> doc.id, user_id |-> doc.user_id,
     username |-> doc.username, content |-> doc.content,
     created_at |-> doc.created_at]
ReactionMsg(username, emoji) ==
    [type |-> "reaction", username |-> username, emoji |-> emoji]
StreamEnded == [type |-> "stream_ended", message |-> "Stream has ended"]
NoMsg == [type |-> "none"]
NoDoc == [id |-> 0]
NoReq == [stream_id |-> UnknownId]
NoResp == [op |-> "none"]

\* ------------------------------------------------------------- broadcast()
\* A broadcast call in progress: the loop "for connection in
\* self.active_connections[channel_name]" runs over the live set object, so
\* the record holds the state of CPython's set iterator: used is the size the
\* set had when the iterator was made, stale says the set object has since
\* been emptied and dropped from the dict, dirty says the set has been
\* mutated since the last element was taken, todo is what the iterator would
\* still yield.  seq, by, start, sent and failed are history: the call's
\* number, who made it, the members when it began, who was sent the message
\* and whose send raised.
NoBc == [st |-> "none", chan |-> "", msg |-> NoMsg, ret |-> "", used |-> 0,
         stale |-> FALSE, dirty |-> FALSE, todo |-> {}, target |-> 0,
         disconnected |-> << >>, seq |-> 0, start |-> {}, sent |-> {},
         failed |-> {}]

Finished(b, outcome) ==
    [b EXCEPT !.st = outcome, !.used = 0, !.stale = FALSE, !.dirty = FALSE,
              !.todo = {}, !.target = 0, !.disconnected = << >>]

\* What a mutation of the registry by another task does to a running iterator.
Touch(b, before, after) ==
    IF b.st # "running" \/ b.stale THEN b
    ELSE IF b.chan \notin DOMAIN after.active_connections
         THEN [b EXCEPT !.stale = TRUE, !.dirty = FALSE, !.todo = {}]
    ELSE IF after.active_connections[b.chan]
               = Members(before.active_connections, b.chan)
         THEN b
    ELSE [b EXCEPT !.dirty = TRUE, !.todo = {}]

\* Where the caller of broadcast() goes on when the call returns: up to its
\* next await.  ret names the call site.
ReturnPc(ret) ==
    CASE ret = "joined" -> "sync1"     \* await db.streams.update_one (l.873)
      [] ret = "loop"   -> "recv"      \* await websocket.receive_text (l.880)
      [] ret = "left"   -> "sync2"     \* await db.streams.update_one (l.924)
      [] ret = "ended"  -> "done"      \* return of end_stream (l.848)

\* Where the caller ends when broadcast() raises: no call site catches
\* anything but WebSocketDisconnect.
RaisePc(ret) ==
    CASE ret = "joined" -> "crashed_join"
      [] ret = "loop"   -> "crashed_loop"
      [] ret = "left"   -> "crashed_exit"
      [] ret = "ended"  -> "fail500"

\* The viewer_count argument of update_one is evaluated when the call is made.
SyncArg(t, ret, reg, channel_name) ==
    IF ret \in {"joined", "left"}
    THEN [syncVal EXCEPT ![t] = get_viewer_count(reg, channel_name)]
    ELSE syncVal

\* Mutant of StartBroadcast: without the guard "if channel_name in
\* self.active_connections", a channel the registry does not hold raises.
StartBroadcast_NoGuard(t, channel_name, message, ret, reg) ==
    /\ nbcast' = nbcast + 1
    /\ active_connections' = reg.active_connections
    /\ stream_viewers' = reg.stream_viewers
    /\ syncVal' = syncVal
    /\ LET b0 == [NoBc EXCEPT !.chan = channel_name, !.msg = message,
                              !.ret = ret, !.seq = nbcast + 1,
                              !.start = Members(reg.active_connections,
                                                channel_name)]
       IN IF channel_name \notin DOMAIN reg.active_connections
          THEN /\ bc' = [u \in Tasks |->
                           IF u = t THEN Finished(b0, "raised")
                           ELSE Touch(bc[u], Reg, reg)]
               /\ pc' = [pc EXCEPT ![t] = RaisePc(ret)]
          ELSE \E first \in reg.active_connections[channel_name] :
               /\ bc' = [u \in Tasks |->
                           IF u = t
                           THEN [b0 EXCEPT
                                   !.st = "running",
                                   !.used = Cardinality(
                                       reg.active_connections[channel_name]),
                                   !.todo = reg.active_connections[channel_name]
                                              \ {first},
                                   !.target = first]
                           ELSE Touch(bc[u], Reg, reg)]
               /\ pc' = [pc EXCEPT ![t] = "bcast"]

\* broadcast(channel_name, message) called by task t in registry state reg
\* (the state the caller's segment has produced so far), up to the first
\* "await connection.send_json(message)" or, for a channel the registry does
\* not hold, up to the caller's next await.
StartBroadcast(t, channel_name, message, ret, reg) ==
    /\ nbcast' = nbcast + 1
    /\ active_connections' = reg.active_connections
    /\ stream_viewers' = reg.stream_viewers
    /\ LET b0 == [NoBc EXCEPT !.chan = channel_name, !.msg = message,
                              !.ret = ret, !.seq = nbcast + 1,
                              !.start = Members(reg.active_connections,
                                                channel_name)]
       IN IF channel_name \notin DOMAIN reg.active_connections
          THEN /\ bc' = [u \in Tasks |->
                           IF u = t THEN Finished(b0, "returned")
                           ELSE Touch(bc[u], Reg, reg)]
               /\ pc' = [pc EXCEPT ![t] = ReturnPc(ret)]
               /\ syncVal' = SyncArg(t, ret, reg, channel_name)
          ELSE \E first \in reg.active_connections[channel_name] :
               /\ bc' = [u \in Tasks |->
                           IF u = t
                           THEN [b0 EXCEPT
                                   !.st = "running",
                                   !.used = Cardinality(
                                       reg.active_connections[channel_name]),
                                   !.todo = reg.active_connections[channel_name]
                                              \ {first},
                                   !.target = first]
                           ELSE Touch(bc[u], Reg, reg)]
               /\ pc' = [pc EXCEPT ![t] = "bcast"]
               /\ syncVal' = syncVal

\* The history counters of connect / disconnect calls on a channel.
RECURSIVE ClampDown(_, _)
ClampDown(n, k) == IF k = 0 THEN n ELSE ClampDown(Max(0, n - 1), k - 1)

CountLeaves(channel_name, k) ==
    /\ leaves' = [leaves EXCEPT ![channel_name] = @ + k]
    /\ clamp' = [clamp EXCEPT ![channel_name] = ClampDown(@, k)]
    /\ joins' = joins

\* Mutant of SendStep: without the "except:" around send_json, a send that
\* fails leaves broadcast() with the exception.
SendStep_SendErrorPropagates(t) ==
    /\ pc[t] = "bcast"
    /\ LET b   == bc[t]
           c   == b.target
           ok  == wsOpen[c]
           b1  == [b EXCEPT
                     !.sent = IF ok THEN @ \cup {c} ELSE @,
                     !.failed = IF ok THEN @ ELSE @ \cup {c}]
           cur == Members(active_connections, b.chan)
       IN
       /\ inbox' = IF ok
                   THEN [inbox EXCEPT ![c] =
                           Append(@, [seq |-> b.seq, by |-> t, msg |-> b.msg])]
                   ELSE inbox
       /\ \/ /\ ~ok \/ b.stale \/ Cardinality(cur) # b.used
             /\ bc' = [bc EXCEPT ![t] = Finished(b1, "raised")]
             /\ pc' = [pc EXCEPT ![t] = RaisePc(b.ret)]
             /\ wsOpen' = IF t \in Conns THEN [wsOpen EXCEPT ![t] = FALSE]
                          ELSE wsOpen
             /\ UNCHANGED <<syncVal>>
          \/ /\ ok /\ ~b.stale /\ Cardinality(cur) = b.used
             /\ \E todo \in (IF b.dirty THEN SUBSET cur ELSE {b.todo}) :
                \E next \in todo :
                  bc' = [bc EXCEPT ![t] = [b1 EXCEPT !.dirty = FALSE,
                                                     !.todo = todo \ {next},
                                                     !.target = next]]
             /\ UNCHANGED <<pc, syncVal, wsOpen>>
          \/ /\ ok /\ ~b.stale /\ Cardinality(cur) = b.used
             /\ b.dirty \/ b.todo = {}
             /\ bc' = [bc EXCEPT ![t] = Finished(b1, "returned")]
             /\ pc' = [pc EXCEPT ![t] = ReturnPc(b.ret)]
             /\ syncVal' = SyncArg(t, b.ret, Reg, b.chan)
             /\ wsOpen' = wsOpen
    /\ UNCHANGED <<active_connections, stream_viewers, joins, leaves, clamp,
                   chan, msgDoc, req, streams, stream_messages, users, evLeft,
                   adminLeft, nbcast, nmsg, videos, likes, follows, resp>>

\* One pass of the loop of broadcast(): "await connection.send_json(message)"
\* on the current target completes (the peer has the message) or raises (the
\* connection is closed), then the iterator is asked for the next element.
\* The set iterator raises RuntimeError when the set's size is not the size
\* it had when the loop began; when the size is the same but the set was
\* mutated in between (a Join and a Leave), the rebuilt hash table may yield
\* any of the current members, or none.  broadcast() takes no lock and keeps
\* no queue: calls made by different tasks resume independently, each when
\* its own await completes.
SendStep(t) ==
    /\ pc[t] = "bcast"
    /\ LET b   == bc[t]
           c   == b.target
           ok  == wsOpen[c]
           b1  == [b EXCEPT
                     !.disconnected = IF ok THEN @ ELSE Append(@, c),
                     !.sent = IF ok THEN @ \cup {c} ELSE @,
                     !.failed = IF ok THEN @ ELSE @ \cup {c}]
           cur == Members(active_connections, b.chan)
       IN
       /\ inbox' = IF ok
                   THEN [inbox EXCEPT ![c] =
                           Append(@, [seq |-> b.seq, by |-> t, msg |-> b.msg])]
                   ELSE inbox
       /\ \/ \* RuntimeError: Set changed size during iteration
             /\ b.stale \/ Cardinality(cur) # b.used
             /\ bc' = [bc EXCEPT ![t] = Finished(b1, "raised")]
             /\ pc' = [pc EXCEPT ![t] = RaisePc(b.ret)]
             /\ wsOpen' = IF t \in Conns THEN [wsOpen EXCEPT ![t] = FALSE]
                          ELSE wsOpen
             /\ UNCHANGED <<active_connections, stream_viewers, syncVal,
                            joins, leaves, clamp>>
          \/ \* the iterator yields another connection
             /\ ~b.stale /\ Cardinality(cur) = b.used
             /\ \E todo \in (IF b.dirty THEN SUBSET cur ELSE {b.todo}) :
                \E next \in todo :
                  bc' = [bc EXCEPT ![t] = [b1 EXCEPT !.dirty = FALSE,
                                                     !.todo = todo \ {next},
                                                     !.target = next]]
             /\ UNCHANGED <<active_connections, stream_viewers, pc, syncVal,
                            wsOpen, joins, leaves, clamp>>
          \/ \* the iterator is exhausted: the failed connections are removed
             /\ ~b.stale /\ Cardinality(cur) = b.used
             /\ b.dirty \/ b.todo = {}
             /\ LET reg == DisconnectAll(Reg, b1.disconnected, b.chan)
                IN /\ active_connections' = reg.active_connections
                   /\ stream_viewers' = reg.stream_viewers
                   /\ bc' = [u \in Tasks |->
                               IF u = t THEN Finished(b1, "returned")
                               ELSE Touch(bc[u], Reg, reg)]
                   /\ pc' = [pc EXCEPT ![t] = ReturnPc(b.ret)]
                   /\ syncVal' = SyncArg(t, b.ret, reg, b.chan)
                   /\ CountLeaves(b.chan, Len(b1.disconnected))
             /\ wsOpen' = wsOpen
    /\ UNCHANGED <<chan, msgDoc, req, streams, stream_messages, users, evLeft,
                   adminLeft, nbcast, nmsg, videos, likes, follows, resp>>

\* ------------------------------------------------------------ persistence
\* find_one: the position of the first document that matches, 0 for None.
FindOne(coll, filter) ==
    LET hits == {i \in 1..Len(coll) :
                    \A k \in DOMAIN filter : coll[i][k] = filter[k]}
    IN  IF hits = {} THEN 0 ELSE CHOOSE i \in hits : \A j \in hits : i <= j

\* update_one({"channel_name": ...}, {"$set": {"viewer_count": n}})
SetViewerCount(coll, channel_name, n) ==
    LET i == FindOne(coll, [channel_name |-> channel_name])
    IN  IF i = 0 THEN coll ELSE [coll EXCEPT ![i].viewer_count = n]

\* Mutant of SetNotLive: the update flips is_live.
SetNotLive_Toggles(coll, stream_id) ==
    [i \in 1..Len(coll) |->
        IF coll[i].id = stream_id
        THEN [coll[i] EXCEPT !.is_live = ~@]
        ELSE coll[i]]

\* update_one({"id": stream_id}, {"$set": {"is_live": False}})
SetNotLive(coll, stream_id) ==
    LET i == FindOne(coll, [id |-> stream_id])
    IN  IF i = 0 THEN coll ELSE [coll EXCEPT ![i].is_live = FALSE]

\* stream_id[:8]
channel_name_of(stream_id) == stream_id[1]

\* Mutant of StreamDoc: the new stream is persisted as not live.
StreamDoc_NotLive(stream_id, host) ==
    [id |-> stream_id, channel_name |-> channel_name_of(stream_id),
     host_id |-> host, viewer_count |-> 0, is_live |-> FALSE]

StreamDoc(stream_id, host) ==
    [id |-> stream_id, channel_name |-> channel_name_of(stream_id),
     host_id |-> host, viewer_count |-> 0, is_live |-> TRUE]

\* get_current_user: the user document as it is when the token is resolved.
UserDoc(u) == [id |-> u, is_banned |-> users[u].is_banned,
               is_admin |-> users[u].is_admin]

\* ------------------------------------------------- stream_chat_websocket
\* A client has opened /ws/stream/{channel_name}/... and the handler waits in
\* connect() at "await websocket.accept()", having changed nothing yet.
\* accept() returns: the rest of connect() runs, then the viewer_joined
\* broadcast begins.
AcceptedOn(w, channel_name) ==
    /\ pc[w] = "idle"
    /\ LET reg == connect(Reg, w, channel_name)
       IN  /\ chan' = [chan EXCEPT ![w] = channel_name]
           /\ StartBroadcast(w, channel_name,
                   ViewerJoined(w, get_viewer_count(reg, channel_name)),
                   "joined", reg)
           /\ joins' = [joins EXCEPT ![channel_name] = @ + 1]
           /\ clamp' = [clamp EXCEPT ![channel_name] = @ + 1]
    /\ UNCHANGED <<wsOpen, inbox, msgDoc, req, streams, stream_messages,
                   users, evLeft, adminLeft, nmsg, leaves,
                   videos, likes, follows, resp>>

\* A connection to one of the channels of the run.
Accepted(w) == \E channel_name \in WsChans : AcceptedOn(w, channel_name)

\* "await db.streams.update_one(... viewer_count ...)" completes, after the
\* join (then the receive loop is entered) or after the leave (then the
\* handler returns).
SyncWrite(w) ==
    /\ pc[w] \in {"sync1", "sync2"}
    /\ streams' = SetViewerCount(streams, chan[w], syncVal[w])
    /\ pc' = [pc EXCEPT ![w] = IF pc[w] = "sync1" THEN "recv" ELSE "done"]
    /\ UNCHANGED <<active_connections, stream_viewers, chan, wsOpen, inbox, bc,
                   syncVal, msgDoc, req, stream_messages, users, evLeft,
                   adminLeft, nbcast, nmsg, joins, leaves, clamp,
                   videos, likes, follows, resp>>

\* receive_text() returns a frame {"type": "chat", "content": ...}: msg_doc
\* is built and "await db.stream_messages.insert_one(msg_doc)" begins.
RecvChat(w) ==
    /\ pc[w] = "recv" /\ wsOpen[w] /\ evLeft > 0
    /\ evLeft' = evLeft - 1
    /\ nmsg' = nmsg + 1
    /\ msgDoc' = [msgDoc EXCEPT ![w] =
                    [id |-> nmsg + 1, stream_id |-> chan[w], user_id |-> w,
                     username |-> w, content |-> "hi",
                     created_at |-> nmsg + 1]]
    /\ pc' = [pc EXCEPT ![w] = "insert"]
    /\ UNCHANGED <<active_connections, stream_viewers, chan, wsOpen, inbox, bc,
                   syncVal, req, streams, stream_messages, users, adminLeft,
                   nbcast, joins, leaves, clamp, videos, likes, follows, resp>>

\* insert_one completes: the chat broadcast begins.
InsertDone(w) ==
    /\ pc[w] = "insert"
    /\ stream_messages' = Append(stream_messages, msgDoc[w])
    /\ StartBroadcast(w, chan[w], ChatMsg(msgDoc[w]), "loop", Reg)
    /\ msgDoc' = [msgDoc EXCEPT ![w] = NoDoc]
    /\ UNCHANGED <<chan, wsOpen, inbox, req, streams, users, evLeft, adminLeft,
                   nmsg, joins, leaves, clamp, videos, likes, follows, resp>>

\* insert_one raises a persistence error (PyMongoError): it is not a
\* WebSocketDisconnect, so it leaves the handler before the broadcast is
\* called, and the server closes the socket.
InsertFailed(w) ==
    /\ pc[w] = "insert"
    /\ pc' = [pc EXCEPT ![w] = "crashed_loop"]
    /\ wsOpen' = [wsOpen EXCEPT ![w] = FALSE]
    /\ msgDoc' = [msgDoc EXCEPT ![w] = NoDoc]
    /\ UNCHANGED <<active_connections, stream_viewers, chan, inbox, bc,
                   syncVal, req, streams, stream_messages, users, evLeft,
                   adminLeft, nbcast, nmsg, joins, leaves, clamp,
                   videos, likes, follows, resp>>

\* Mutant of RecvReaction: the reaction is stored like a chat message.
RecvReaction_Persists(w) ==
    /\ pc[w] = "recv" /\ wsOpen[w] /\ evLeft > 0
    /\ evLeft' = evLeft - 1
    /\ stream_messages' = Append(stream_messages,
           [id |-> 0, stream_id |-> chan[w], user_id |-> w, username |-> w,
            content |-> "heart", created_at |-> 0])
    /\ StartBroadcast(w, chan[w], ReactionMsg(w, "heart"), "loop", Reg)
    /\ UNCHANGED <<chan, wsOpen, inbox, msgDoc, req, streams, users, adminLeft,
                   nmsg, joins, leaves, clamp, videos, likes, follows, resp>>

\* receive_text() returns a frame {"type": "reaction", ...}.
RecvReaction(w) ==
    /\ pc[w] = "recv" /\ wsOpen[w] /\ evLeft > 0
    /\ evLeft' = evLeft - 1
    /\ StartBroadcast(w, chan[w], ReactionMsg(w, "heart"), "loop", Reg)
    /\ UNCHANGED <<chan, wsOpen, inbox, msgDoc, req, streams, stream_messages,
                   users, adminLeft, nmsg, joins, leaves, clamp,
                   videos, likes, follows, resp>>

\* receive_text() returns a JSON object of any other type: neither branch
\* is taken and the loop awaits the next frame.
RecvOther(w) ==
    /\ pc[w] = "recv" /\ wsOpen[w] /\ evLeft > 0
    /\ evLeft' = evLeft - 1
    /\ UNCHANGED <<active_connections, stream_viewers, pc, chan, wsOpen, inbox,
                   bc, syncVal, msgDoc, req, streams, stream_messages, users,
                   adminLeft, nbcast, nmsg, joins, leaves, clamp,
                   videos, likes, follows, resp>>

\* receive_text() returns text that json.loads rejects, or JSON that is not an
\* object (.get raises AttributeError): the exception is not a
\* WebSocketDisconnect, the handler ends with it and the server closes the
\* socket.
RecvMalformed(w) ==
    /\ pc[w] = "recv" /\ wsOpen[w] /\ evLeft > 0
    /\ evLeft' = evLeft - 1
    /\ pc' = [pc EXCEPT ![w] = "crashed_loop"]
    /\ wsOpen' = [wsOpen EXCEPT ![w] = FALSE]
    /\ UNCHANGED <<active_connections, stream_viewers, chan, inbox, bc,
                   syncVal, msgDoc, req, streams, stream_messages, users,
                   adminLeft, nbcast, nmsg, joins, leaves, clamp,
                   videos, likes, follows, resp>>

\* receive_text() raises WebSocketDisconnect: the except block runs
\* disconnect() and begins the viewer_left broadcast.
RecvDisconnect(w) ==
    /\ pc[w] = "recv" /\ ~wsOpen[w]
    /\ LET reg == disconnect(Reg, w, chan[w])
       IN  StartBroadcast(w, chan[w],
                          ViewerLeft(w, get_viewer_count(reg, chan[w])),
                          "left", reg)
    /\ CountLeaves(chan[w], 1)
    /\ UNCHANGED <<chan, wsOpen, inbox, msgDoc, req, streams, stream_messages,
                   users, evLeft, adminLeft, nmsg,
                   videos, likes, follows, resp>>

\* The peer closes an accepted connection (or its transport breaks).
PeerClose(w) ==
    /\ wsOpen[w]
    /\ pc[w] \in {"bcast", "sync1", "recv", "insert"}
    /\ wsOpen' = [wsOpen EXCEPT ![w] = FALSE]
    /\ UNCHANGED <<active_connections, stream_viewers, pc, chan, inbox, bc,
                   syncVal, msgDoc, req, streams, stream_messages, users,
                   evLeft, adminLeft, nbcast, nmsg, joins, leaves, clamp,
                   videos, likes, follows, resp>>

\* ------------------------------------------------------------- end_stream
\* Mutant of EndFind: the requester's identity is not compared with the host.
EndFind_AnyoneMayEnd(r) ==
    /\ pc[r] = "idle"
    /\ \E u \in Users :
       \E stream_id \in {streams[i].id : i \in 1..Len(streams)}
                          \cup {UnknownId} :
         LET user == UserDoc(u)
             i    == FindOne(streams, [id |-> stream_id])
         IN  /\ req' = [req EXCEPT ![r] =
                          [stream_id |-> stream_id, user |-> user,
                           channel_name |-> IF i = 0 THEN "none"
                                            ELSE streams[i].channel_name]]
             /\ IF i = 0
                THEN pc' = [pc EXCEPT ![r] = "fail404"]
                ELSE pc' = [pc EXCEPT ![r] = "update"]
    /\ UNCHANGED <<active_connections, stream_viewers, chan, wsOpen, inbox, bc,
                   syncVal, msgDoc, streams, stream_messages, users, evLeft,
                   adminLeft, nbcast, nmsg, joins, leaves, clamp,
                   videos, likes, follows, resp>>

\* POST /streams/{stream_id}/end has arrived and get_current_user has resolved
\* the token; "await db.streams.find_one({"id": stream_id})" completes: 404,
\* 403, or "await db.streams.update_one(...)" begins. The request
\* (stream id, requester) is kept for the later steps.
EndFind(r) ==
    /\ pc[r] = "idle"
    /\ \E u \in Users :
       \E stream_id \in {streams[i].id : i \in 1..Len(streams)}
                          \cup {UnknownId} :
         LET user == UserDoc(u)
             i    == FindOne(streams, [id |-> stream_id])
         IN  /\ req' = [req EXCEPT ![r] =
                          [stream_id |-> stream_id, user |-> user,
                           channel_name |-> IF i = 0 THEN "none"
                                            ELSE streams[i].channel_name]]
             /\ IF i = 0
                THEN pc' = [pc EXCEPT ![r] = "fail404"]
                ELSE IF streams[i].host_id # user.id /\ ~user.is_admin
                THEN pc' = [pc EXCEPT ![r] = "fail403"]
                ELSE pc' = [pc EXCEPT ![r] = "update"]
    /\ UNCHANGED <<active_connections, stream_viewers, chan, wsOpen, inbox, bc,
                   syncVal, msgDoc, streams, stream_messages, users, evLeft,
                   adminLeft, nbcast, nmsg, joins, leaves, clamp,
                   videos, likes, follows, resp>>

\* Mutant of EndUpdate: the viewers are notified while the update of is_live
\* has not been applied.
EndUpdate_NotifyFirst(r) ==
    /\ pc[r] = "update"
    /\ streams' = streams
    /\ StartBroadcast(r, req[r].channel_name, StreamEnded, "ended", Reg)
    /\ UNCHANGED <<chan, wsOpen, inbox, msgDoc, req, stream_messages, users,
                   evLeft, adminLeft, nmsg, joins, leaves, clamp,
                   videos, likes, follows, resp>>

\* Mutant of EndUpdate: ending the stream discards its chat.
EndUpdate_ClearsChat(r) ==
    /\ pc[r] = "update"
    /\ streams' = SetNotLive(streams, req[r].stream_id)
    /\ stream_messages' = << >>
    /\ StartBroadcast(r, req[r].channel_name, StreamEnded, "ended", Reg)
    /\ UNCHANGED <<chan, wsOpen, inbox, msgDoc, req, users, evLeft, adminLeft,
                   nmsg, joins, leaves, clamp, videos, likes, follows, resp>>

\* Mutant of EndUpdate: ending the stream empties its channel.
EndUpdate_ClosesChannel(r) ==
    /\ pc[r] = "update"
    /\ streams' = SetNotLive(streams, req[r].stream_id)
    /\ StartBroadcast(r, req[r].channel_name, StreamEnded, "ended",
           [active_connections |->
              [c \in DOMAIN active_connections \ {req[r].channel_name} |->
                 active_connections[c]],
            stream_viewers |->
              [c \in DOMAIN stream_viewers \ {req[r].channel_name} |->
                 stream_viewers[c]]])
    /\ UNCHANGED <<chan, wsOpen, inbox, msgDoc, req, stream_messages, users,
                   evLeft, adminLeft, nmsg, joins, leaves, clamp, videos,
                   likes, follows, resp>>

\* update_one(is_live = False) completes: the stream_ended broadcast begins.
EndUpdate(r) ==
    /\ pc[r] = "update"
    /\ streams' = SetNotLive(streams, req[r].stream_id)
    /\ StartBroadcast(r, req[r].channel_name, StreamEnded, "ended", Reg)
    /\ UNCHANGED <<chan, wsOpen, inbox, msgDoc, req, stream_messages, users,
                   evLeft, adminLeft, nmsg, joins, leaves, clamp,
                   videos, likes, follows, resp>>

\* ----------------------------------------------------------- create_stream
\* Mutant of find_active_stream: the query filters on the wrong key.
find_active_stream_WrongKey(coll, host_id) ==
    FindOne(coll, [channel_name |-> host_id, is_live |-> TRUE])

\* find_one({"host_id": user['id'], "is_live": True})
find_active_stream(coll, host_id) ==
    FindOne(coll, [host_id |-> host_id, is_live |-> TRUE])

\* History: the host has a persisted live stream.
HasLive(host_id) ==
    \E i \in 1..Len(streams) :
        streams[i].host_id = host_id /\ streams[i].is_live

\* str(uuid.uuid4()): an id no stream has and no running request has drawn.
FreshIds ==
    UuidPool \ ({streams[i].id : i \in 1..Len(streams)}
                  \cup {req[r].stream_id : r \in CreateReqs})

\* POST /streams/create arrives: get_current_user resolves the token to the
\* user document, a banned user gets 403, for any other user
\* "await db.streams.find_one(...)" begins.
CreateStart(r) ==
    /\ pc[r] = "idle"
    /\ \E u \in Users :
         LET user == UserDoc(u)
         IN  /\ req' = [req EXCEPT ![r] =
                          [user |-> user, stream_id |-> UnknownId,
                           live |-> user.is_banned /\ HasLive(u)]]
             /\ pc' = [pc EXCEPT ![r] =
                         IF user.is_banned THEN "fail403" ELSE "check"]
    /\ UNCHANGED <<active_connections, stream_viewers, chan, wsOpen, inbox, bc,
                   syncVal, msgDoc, streams, stream_messages, users, evLeft,
                   adminLeft, nbcast, nmsg, joins, leaves, clamp,
                   videos, likes, follows, resp>>

\* find_one completes: 400 if the host has a live stream, else stream_doc is
\* built and "await db.streams.insert_one(stream_doc)" begins.
CreateCheck(r) ==
    /\ pc[r] = "check"
    /\ LET existing == find_active_stream(streams, req[r].user.id)
       IN  IF existing # 0
           THEN /\ pc' = [pc EXCEPT ![r] = "fail400"]
                /\ req' = [req EXCEPT ![r].live = HasLive(req[r].user.id)]
           ELSE /\ pc' = [pc EXCEPT ![r] = "insert"]
                /\ \E stream_id \in FreshIds :
                     req' = [req EXCEPT ![r].stream_id = stream_id,
                                        ![r].live = HasLive(req[r].user.id)]
    /\ UNCHANGED <<active_connections, stream_viewers, chan, wsOpen, inbox, bc,
                   syncVal, msgDoc, streams, stream_messages, users, evLeft,
                   adminLeft, nbcast, nmsg, joins, leaves, clamp,
                   videos, likes, follows, resp>>

\* insert_one completes: the stream is persisted and the response returned.
CreateInsert(r) ==
    /\ pc[r] = "insert"
    /\ streams' = Append(streams, StreamDoc(req[r].stream_id, req[r].user.id))
    /\ pc' = [pc EXCEPT ![r] = "done"]
    /\ UNCHANGED <<active_connections, stream_viewers, chan, wsOpen, inbox, bc,
                   syncVal, msgDoc, req, stream_messages, users, evLeft,
                   adminLeft, nbcast, nmsg, joins, leaves, clamp,
                   videos, likes, follows, resp>>

\* ------------------------------------------------------------ admin routes
\* PUT /admin/users/{user_id}/ban: an admin cannot be banned.
ban_user(u) ==
    /\ adminLeft > 0
    /\ ~users[u].is_admin
    /\ ~users[u].is_banned
    /\ adminLeft' = adminLeft - 1
    /\ users' = [users EXCEPT ![u].is_banned = TRUE]
    /\ UNCHANGED <<active_connections, stream_viewers, pc, chan, wsOpen, inbox,
                   bc, syncVal, msgDoc, req, streams, stream_messages, evLeft,
                   nbcast, nmsg, joins, leaves, clamp,
                   videos, likes, follows, resp>>

\* PUT /admin/users/{user_id}/unban
unban_user(u) ==
    /\ adminLeft > 0
    /\ users[u].is_banned
    /\ adminLeft' = adminLeft - 1
    /\ users' = [users EXCEPT ![u].is_banned = FALSE]
    /\ UNCHANGED <<active_connections, stream_viewers, pc, chan, wsOpen, inbox,
                   bc, syncVal, msgDoc, req, streams, stream_messages, evLeft,
                   nbcast, nmsg, joins, leaves, clamp,
                   videos, likes, follows, resp>>

\* ---------------------------------------------------------- chat history
RECURSIVE SortDescending(_)
\* cursor.sort("created_at", -1)
SortDescending(docs) ==
    IF docs = << >> THEN << >>
    ELSE LET i == CHOOSE i \in 1..Len(docs) :
                    \A j \in 1..Len(docs) :
                        \/ docs[j].created_at < docs[i].created_at
                        \/ docs[j].created_at = docs[i].created_at /\ j >= i
             rest == [k \in 1..(Len(docs) - 1) |->
                        IF k < i THEN docs[k] ELSE docs[k + 1]]
         IN  << docs[i] >> \o SortDescending(rest)

\* cursor.limit(limit).to_list(limit), for limit >= 1
Limit(docs, limit) ==
    SubSeq(docs, 1, IF limit < Len(docs) THEN limit ELSE Len(docs))

\* list(reversed(messages))
Reversed(docs) == [i \in 1..Len(docs) |-> docs[Len(docs) + 1 - i]]

\* find({"stream_id": stream_id})
FindByStreamId(coll, stream_id) ==
    LET RECURSIVE Sel(_)
        Sel(n) == IF n = 0 THEN << >>
                  ELSE IF coll[n].stream_id = stream_id
                       THEN Append(Sel(n - 1), coll[n])
                       ELSE Sel(n - 1)
    IN  Sel(Len(coll))

\* Mutant of get_stream_chat: the page is returned as the cursor yields it.
get_stream_chat_NotReversed(coll, stream_id, limit) ==
    Limit(SortDescending(FindByStreamId(coll, stream_id)), limit)

\* GET /streams/{stream_id}/chat?limit=
get_stream_chat(coll, stream_id, limit) ==
    Reversed(Limit(SortDescending(FindByStreamId(coll, stream_id)), limit))

GetStreamChat ==
    /\ \E stream_id \in Prefixes : \E limit \in 1..MaxLimit :
         resp' = [op |-> "get_stream_chat", stream_id |-> stream_id,
                  limit |-> limit,
                  body |-> get_stream_chat(stream_messages, stream_id, limit)]
    /\ UNCHANGED <<active_connections, stream_viewers, pc, chan, wsOpen, inbox,
                   bc, syncVal, msgDoc, req, streams, stream_messages, users,
                   evLeft, adminLeft, nbcast, nmsg, joins, leaves, clamp,
                   videos, likes, follows>>

\* ------------------------------------------------------------------ likes
\* delete_one: the first matching document is removed.
DeleteAt(coll, k) ==
    [i \in 1..(Len(coll) - 1) |-> IF i < k THEN coll[i] ELSE coll[i + 1]]

\* update_one({"id": video_id}, {"$inc": {"likes_count": d}})
IncLikes(vids, video_id, d) ==
    LET i == FindOne(vids, [id |-> video_id])
    IN  IF i = 0 THEN vids
        ELSE [vids EXCEPT ![i].likes_count = @ + d]

\* POST /videos/{video_id}/like
like_video(vids, lks, video_id, user_id) ==
    LET i        == FindOne(vids, [id |-> video_id])
        existing == FindOne(lks, [video_id |-> video_id, user_id |-> user_id])
    IN  IF i = 0
        THEN [videos |-> vids, likes |-> lks,
              out |-> [status |-> 404, detail |-> "Video not found"]]
        ELSE IF existing # 0
        THEN [videos |-> vids, likes |-> lks,
              out |-> [status |-> 400, detail |-> "Already liked"]]
        ELSE [videos |-> IncLikes(vids, video_id, 1),
              likes |-> Append(lks, [video_id |-> video_id,
                                     user_id |-> user_id]),
              out |-> [status |-> 200, message |-> "Liked",
                       likes_count |-> vids[i].likes_count + 1]]

\* Mutant of unlike_video: the like record is removed, the counter is kept.
unlike_video_KeepsCount(vids, lks, video_id, user_id) ==
    LET k == FindOne(lks, [video_id |-> video_id, user_id |-> user_id])
        i == FindOne(vids, [id |-> video_id])
    IN  IF k = 0
        THEN [videos |-> vids, likes |-> lks,
              out |-> [status |-> 400, detail |-> "Not liked"]]
        ELSE [videos |-> vids, likes |-> DeleteAt(lks, k),
              out |-> [status |-> 200, message |-> "Unliked",
                       likes_count |-> Max(0, vids[i].likes_count - 1)]]

\* DELETE /videos/{video_id}/like
unlike_video(vids, lks, video_id, user_id) ==
    LET k == FindOne(lks, [video_id |-> video_id, user_id |-> user_id])
        i == FindOne(vids, [id |-> video_id])
    IN  IF k = 0
        THEN [videos |-> vids, likes |-> lks,
              out |-> [status |-> 400, detail |-> "Not liked"]]
        ELSE IF i = 0
        THEN \* video is None: video['likes_count'] raises TypeError
             [videos |-> vids, likes |-> DeleteAt(lks, k),
              out |-> [status |-> 500, detail |-> "Internal Server Error"]]
        ELSE [videos |-> IncLikes(vids, video_id, -1),
              likes |-> DeleteAt(lks, k),
              out |-> [status |-> 200, message |-> "Unliked",
                       likes_count |-> Max(0, vids[i].likes_count - 1)]]

\* One like request, served from its first await to its response.
LikeVideo ==
    /\ \E u \in Users : \E v \in VideoIds :
         LET r == like_video(videos, likes, v, u)
         IN  /\ videos' = r.videos
             /\ likes' = r.likes
             /\ resp' = [op |-> "like_video", user |-> u, target |-> v,
                         out |-> r.out]
    /\ UNCHANGED <<active_connections, stream_viewers, pc, chan, wsOpen, inbox,
                   bc, syncVal, msgDoc, req, streams, stream_messages, users,
                   evLeft, adminLeft, nbcast, nmsg, joins, leaves, clamp,
                   follows>>

\* One unlike request, served from its first await to its response.
UnlikeVideo ==
    /\ \E u \in Users : \E v \in VideoIds :
         LET r == unlike_video(videos, likes, v, u)
         IN  /\ videos' = r.videos
             /\ likes' = r.likes
             /\ resp' = [op |-> "unlike_video", user |-> u, target |-> v,
                         out |-> r.out]
    /\ UNCHANGED <<active_connections, stream_viewers, pc, chan, wsOpen, inbox,
                   bc, syncVal, msgDoc, req, streams, stream_messages, users,
                   evLeft, adminLeft, nbcast, nmsg, joins, leaves, clamp,
                   follows>>

\* ------------------------------------------------- likes, await by await
\* like_video: "await db.videos.find_one({"id": video_id})" completes.
LikeFindVideo(r) ==
    /\ pc[r] = "idle"
    /\ \E u \in Users : \E v \in VideoIds :
         LET i == FindOne(videos, [id |-> v])
         IN  IF i = 0
             THEN /\ pc' = [pc EXCEPT ![r] = "fail404"]
                  /\ req' = [req EXCEPT ![r] = [user_id |-> u, video_id |-> v]]
             ELSE /\ pc' = [pc EXCEPT ![r] = "like_check"]
                  /\ req' = [req EXCEPT ![r] =
                               [user_id |-> u, video_id |-> v,
                                likes_count |-> videos[i].likes_count]]
    /\ UNCHANGED <<active_connections, stream_viewers, chan, wsOpen, inbox, bc,
                   syncVal, msgDoc, streams, stream_messages, users, evLeft,
                   adminLeft, nbcast, nmsg, joins, leaves, clamp, videos,
                   likes, follows, resp>>

\* like_video: "await db.likes.find_one(...)" completes: 400 or go on.
LikeCheck(r) ==
    /\ pc[r] = "like_check"
    /\ LET existing == FindOne(likes, [video_id |-> req[r].video_id,
                                       user_id |-> req[r].user_id])
       IN  pc' = [pc EXCEPT ![r] = IF existing # 0 THEN "fail400"
                                   ELSE "like_insert"]
    /\ UNCHANGED <<active_connections, stream_viewers, chan, wsOpen, inbox, bc,
                   syncVal, msgDoc, req, streams, stream_messages, users,
                   evLeft, adminLeft, nbcast, nmsg, joins, leaves, clamp,
                   videos, likes, follows, resp>>

\* like_video: "await db.likes.insert_one(...)" completes.
LikeInsert(r) ==
    /\ pc[r] = "like_insert"
    /\ likes' = Append(likes, [video_id |-> req[r].video_id,
                               user_id |-> req[r].user_id])
    /\ pc' = [pc EXCEPT ![r] = "like_inc"]
    /\ UNCHANGED <<active_connections, stream_viewers, chan, wsOpen, inbox, bc,
                   syncVal, msgDoc, req, streams, stream_messages, users,
                   evLeft, adminLeft, nbcast, nmsg, joins, leaves, clamp,
                   videos, follows, resp>>

\* like_video: "$inc likes_count 1" completes and the response is returned.
LikeInc(r) ==
    /\ pc[r] = "like_inc"
    /\ videos' = IncLikes(videos, req[r].video_id, 1)
    /\ pc' = [pc EXCEPT ![r] = "done"]
    /\ resp' = [op |-> "like_video", user |-> req[r].user_id,
                target |-> req[r].video_id,
                out |-> [status |-> 200, message |-> "Liked",
                         likes_count |-> req[r].likes_count + 1]]
    /\ UNCHANGED <<active_connections, stream_viewers, chan, wsOpen, inbox, bc,
                   syncVal, msgDoc, req, streams, stream_messages, users,
                   evLeft, adminLeft, nbcast, nmsg, joins, leaves, clamp,
                   likes, follows>>

\* unlike_video: "await db.likes.delete_one(...)" completes: 400 or go on.
UnlikeDelete(r) ==
    /\ pc[r] = "idle"
    /\ \E u \in Users : \E v \in VideoIds :
         LET k == FindOne(likes, [video_id |-> v, user_id |-> u])
         IN  /\ req' = [req EXCEPT ![r] = [user_id |-> u, video_id |-> v]]
             /\ IF k = 0
                THEN /\ pc' = [pc EXCEPT ![r] = "fail400"]
                     /\ likes' = likes
                ELSE /\ pc' = [pc EXCEPT ![r] = "unlike_find"]
                     /\ likes' = DeleteAt(likes, k)
    /\ UNCHANGED <<active_connections, stream_viewers, chan, wsOpen, inbox, bc,
                   syncVal, msgDoc, streams, stream_messages, users, evLeft,
                   adminLeft, nbcast, nmsg, joins, leaves, clamp, videos,
                   follows, resp>>

\* unlike_video: "await db.videos.find_one({"id": video_id})" completes.
UnlikeFind(r) ==
    /\ pc[r] = "unlike_find"
    /\ LET i == FindOne(videos, [id |-> req[r].video_id])
       IN  req' = [req EXCEPT ![r] =
                     [user_id |-> req[r].user_id, video_id |-> req[r].video_id,
                      found |-> i # 0,
                      likes_count |-> IF i = 0 THEN 0
                                      ELSE videos[i].likes_count]]
    /\ pc' = [pc EXCEPT ![r] = "unlike_inc"]
    /\ UNCHANGED <<active_connections, stream_viewers, chan, wsOpen, inbox, bc,
                   syncVal, msgDoc, streams, stream_messages, users, evLeft,
                   adminLeft, nbcast, nmsg, joins, leaves, clamp, videos,
                   likes, follows, resp>>

\* unlike_video: "$inc likes_count -1" completes and the response is
\* returned (video['likes_count'] raises TypeError when no video was found).
UnlikeInc(r) ==
    /\ pc[r] = "unlike_inc"
    /\ videos' = IncLikes(videos, req[r].video_id, -1)
    /\ pc' = [pc EXCEPT ![r] = IF req[r].found THEN "done" ELSE "fail500"]
    /\ resp' = [op |-> "unlike_video", user |-> req[r].user_id,
                target |-> req[r].video_id,
                out |-> IF req[r].found
                        THEN [status |-> 200, message |-> "Unliked",
                              likes_count |->
                                  Max(0, req[r].likes_count - 1)]
                        ELSE [status |-> 500,
                              detail |-> "Internal Server Error"]]
    /\ UNCHANGED <<active_connections, stream_viewers, chan, wsOpen, inbox, bc,
                   syncVal, msgDoc, req, streams, stream_messages, users,
                   evLeft, adminLeft, nbcast, nmsg, joins, leaves, clamp,
                   likes, follows>>

\* ---------------------------------------------------------------- follows
\* update_one({"id": user_id}, {"$inc": {"followers_count": d}})
IncFollowers(usrs, user_id, d) ==
    IF user_id \in DOMAIN usrs
    THEN [usrs EXCEPT ![user_id].followers_count = @ + d]
    ELSE usrs

\* update_one({"id": user_id}, {"$inc": {"following_count": d}})
IncFollowing(usrs, user_id, d) ==
    IF user_id \in DOMAIN usrs
    THEN [usrs EXCEPT ![user_id].following_count = @ + d]
    ELSE usrs

\* POST /users/{user_id}/follow
follow_user(usrs, fls, user_id, current_id) ==
    LET existing_follow == FindOne(fls, [follower_id |-> current_id,
                                         following_id |-> user_id])
    IN  IF user_id = current_id
        THEN [users |-> usrs, follows |-> fls,
              out |-> [status |-> 400, detail |-> "Cannot follow yourself"]]
        ELSE IF user_id \notin DOMAIN usrs
        THEN [users |-> usrs, follows |-> fls,
              out |-> [status |-> 404, detail |-> "User not found"]]
        ELSE IF existing_follow # 0
        THEN [users |-> usrs, follows |-> fls,
              out |-> [status |-> 400, detail |-> "Already following"]]
        ELSE [users |-> IncFollowing(IncFollowers(usrs, user_id, 1),
                                     current_id, 1),
              follows |-> Append(fls, [follower_id |-> current_id,
                                       following_id |-> user_id]),
              out |-> [status |-> 200, message |-> "Followed successfully"]]

\* Mutant of unfollow_user: the follower's own counter is not decreased.
unfollow_user_KeepsFollowing(usrs, fls, user_id, current_id) ==
    LET k == FindOne(fls, [follower_id |-> current_id,
                           following_id |-> user_id])
    IN  IF k = 0
        THEN [users |-> usrs, follows |-> fls,
              out |-> [status |-> 400, detail |-> "Not following this user"]]
        ELSE [users |-> IncFollowers(usrs, user_id, -1),
              follows |-> DeleteAt(fls, k),
              out |-> [status |-> 200, message |-> "Unfollowed successfully"]]

\* DELETE /users/{user_id}/follow
unfollow_user(usrs, fls, user_id, current_id) ==
    LET k == FindOne(fls, [follower_id |-> current_id,
                           following_id |-> user_id])
    IN  IF k = 0
        THEN [users |-> usrs, follows |-> fls,
              out |-> [status |-> 400, detail |-> "Not following this user"]]
        ELSE [users |-> IncFollowing(IncFollowers(usrs, user_id, -1),
                                     current_id, -1),
              follows |-> DeleteAt(fls, k),
              out |-> [status |-> 200, message |-> "Unfollowed successfully"]]

\* One follow request, served from its first await to its response.
FollowUser ==
    /\ \E u \in Users : \E t \in UserIds :
         LET r == follow_user(users, follows, t, u)
         IN  /\ users' = r.users
             /\ follows' = r.follows
             /\ resp' = [op |-> "follow_user", user |-> u, target |-> t,
                         out |-> r.out]
    /\ UNCHANGED <<active_connections, stream_viewers, pc, chan, wsOpen, inbox,
                   bc, syncVal, msgDoc, req, streams, stream_messages, evLeft,
                   adminLeft, nbcast, nmsg, joins, leaves, clamp, videos,
                   likes>>

\* One unfollow request, served from its first await to its response.
UnfollowUser ==
    /\ \E u \in Users : \E t \in UserIds :
         LET r == unfollow_user(users, follows, t, u)
         IN  /\ users' = r.users
             /\ follows' = r.follows
             /\ resp' = [op |-> "unfollow_user", user |-> u, target |-> t,
                         out |-> r.out]
    /\ UNCHANGED <<active_connections, stream_viewers, pc, chan, wsOpen, inbox,
                   bc, syncVal, msgDoc, req, streams, stream_messages, evLeft,
                   adminLeft, nbcast, nmsg, joins, leaves, clamp, videos,
                   likes>>

\* ---------------------------------------------------------- specification
InitBase ==
    /\ active_connections = [c \in {} |-> {}]
    /\ stream_viewers = [c \in {} |-> 0]
    /\ pc = [t \in Tasks \cup CreateReqs \cup LikeReqs |-> "idle"]
    /\ chan = [w \in Conns |-> "a"]
    /\ wsOpen = [w \in Conns |-> TRUE]
    /\ inbox = [w \in Conns |-> << >>]
    /\ bc = [t \in Tasks |-> NoBc]
    /\ syncVal = [w \in Tasks |-> 0]
    /\ msgDoc = [w \in Conns |-> NoDoc]
    /\ req = [r \in EndReqs \cup CreateReqs \cup LikeReqs |-> NoReq]
    /\ stream_messages = << >>
    /\ users = [u \in Users |->
                  [is_banned |-> FALSE, is_admin |-> u = "adm",
                   followers_count |-> 0, following_count |-> 0]]
    /\ videos = << [id |-> "v1", likes_count |-> 0] >>
    /\ likes = << >>
    /\ follows = << >>
    /\ resp = NoResp
    /\ adminLeft = MaxAdminOps
    /\ nbcast = 0
    /\ nmsg = 0
    /\ joins = [c \in Prefixes |-> 0]
    /\ leaves = [c \in Prefixes |-> 0]
    /\ clamp = [c \in Prefixes |-> 0]

InitRegistry ==
    /\ InitBase
    /\ evLeft = MaxEvents

\* The live chat of one stream that host h1 has created.
Init ==
    /\ InitRegistry
    /\ streams = << StreamDoc(<<"a", 1>>, "h1") >>

Next ==
    \/ \E w \in Conns : Accepted(w)
    \/ \E t \in Tasks : SendStep(t)
    \/ \E w \in Conns : SyncWrite(w)
    \/ \E w \in Conns : RecvChat(w)
    \/ \E w \in Conns : InsertDone(w)
    \/ \E w \in Conns : InsertFailed(w)
    \/ \E w \in Conns : RecvReaction(w)
    \/ \E w \in Conns : RecvOther(w)
    \/ \E w \in Conns : RecvMalformed(w)
    \/ \E w \in Conns : RecvDisconnect(w)
    \/ \E w \in Conns : PeerClose(w)
    \/ \E r \in EndReqs : EndFind(r)
    \/ \E r \in EndReqs : EndUpdate(r)

Spec == Init /\ [][Next]_vars

\* Fan-out with an unresponsive peer: the connections in StalledConns do not
\* read, so an "await connection.send_json(message)" towards one of them may
\* complete late or never; broadcast() sets no timeout on it.  Every other
\* await of a handler completes: the event loop runs every task that is
\* ready, the database answers, and a responsive peer takes its message.
StalledConns == {1}

\* A send to a responsive peer, or to a closed socket (it raises at once).
SendLive(t) ==
    SendStep(t) /\ (bc[t].target \notin StalledConns \/ ~wsOpen[bc[t].target])

\* A send to an open socket whose peer does not read.
SendStalled(t) ==
    SendStep(t) /\ bc[t].target \in StalledConns /\ wsOpen[bc[t].target]

NextStall ==
    \/ \E w \in Conns : Accepted(w)
    \/ \E t \in Tasks : SendLive(t)
    \/ \E t \in Tasks : SendStalled(t)
    \/ \E w \in Conns : SyncWrite(w)
    \/ \E r \in EndReqs : EndFind(r)
    \/ \E r \in EndReqs : EndUpdate(r)

SpecStall ==
    /\ Init
    /\ [][NextStall]_vars
    /\ \A t \in Tasks : WF_vars(SendLive(t))
    /\ \A w \in Conns : WF_vars(SyncWrite(w))
    /\ \A r \in EndReqs : WF_vars(EndUpdate(r))

\* The stream lifecycle from an empty database: hosts create and end streams
\* while an admin bans and unbans users; no viewer is connected.
InitStreams ==
    /\ InitRegistry
    /\ streams = << >>

NextStreams ==
    \/ \E r \in CreateReqs : CreateStart(r)
    \/ \E r \in CreateReqs : CreateCheck(r)
    \/ \E r \in CreateReqs : CreateInsert(r)
    \/ \E r \in EndReqs : EndFind(r)
    \/ \E r \in EndReqs : EndUpdate(r)
    \/ \E u \in Users : ban_user(u)
    \/ \E u \in Users : unban_user(u)

SpecStreams == InitStreams /\ [][NextStreams]_vars

\* The chat of one stream with its history endpoint: viewers join and send
\* chat messages while clients read the history.
InitChat ==
    /\ InitBase
    /\ evLeft = MaxChats
    /\ streams = << StreamDoc(<<"a", 1>>, "h1") >>

NextChat ==
    \/ \E w \in Conns : Accepted(w)
    \/ \E t \in Tasks : SendStep(t)
    \/ \E w \in Conns : SyncWrite(w)
    \/ \E w \in Conns : RecvChat(w)
    \/ \E w \in Conns : InsertDone(w)
    \/ GetStreamChat

SpecChat == InitChat /\ [][NextChat]_vars

\* Likes of the one video, requests served one after the other as the test
\* client issues them.
NextLikes == LikeVideo \/ UnlikeVideo

SpecLikes == Init /\ [][NextLikes]_vars

\* Follows among the users, requests served one after the other.
NextFollows == FollowUser \/ UnfollowUser

SpecFollows == Init /\ [][NextFollows]_vars

\* The stream lifecycle with repeated end requests: when a request has been
\* answered the client may send another one, for the same or another stream.
EndReturn(r) ==
    /\ pc[r] \in {"done", "fail404", "fail403"}
    /\ nbcast < MaxEnds
    /\ pc' = [pc EXCEPT ![r] = "idle"]
    /\ req' = [req EXCEPT ![r] = NoReq]
    /\ UNCHANGED <<active_connections, stream_viewers, chan, wsOpen, inbox, bc,
                   syncVal, msgDoc, streams, stream_messages, users, evLeft,
                   adminLeft, nbcast, nmsg, joins, leaves, clamp, videos,
                   likes, follows, resp>>

NextLifecycle ==
    \/ \E r \in CreateReqs : CreateStart(r)
    \/ \E r \in CreateReqs : CreateCheck(r)
    \/ \E r \in CreateReqs : CreateInsert(r)
    \/ \E r \in EndReqs : EndFind(r)
    \/ \E r \in EndReqs : EndUpdate(r)
    \/ \E r \in EndReqs : EndReturn(r)

SpecLifecycle == InitStreams /\ [][NextLifecycle]_vars
\* Two channels side by side: each connection picks its channel, reacts,
\* closes and leaves.
NextChannels ==
    \/ \E w \in Conns : \E c \in Prefixes : AcceptedOn(w, c)
    \/ \E t \in Tasks : SendStep(t)
    \/ \E w \in Conns : SyncWrite(w)
    \/ \E w \in Conns : RecvReaction(w)
    \/ \E w \in Conns : RecvDisconnect(w)
    \/ \E w \in Conns : PeerClose(w)

SpecChannels == Init /\ [][NextChannels]_vars
\* Like and unlike requests that run concurrently: each request is a task
\* that may be suspended at every await of its handler.
NextLikesConcurrent ==
    \/ \E r \in LikeReqs : LikeFindVideo(r)
    \/ \E r \in LikeReqs : LikeCheck(r)
    \/ \E r \in LikeReqs : LikeInsert(r)
    \/ \E r \in LikeReqs : LikeInc(r)
    \/ \E r \in LikeReqs : UnlikeDelete(r)
    \/ \E r \in LikeReqs : UnlikeFind(r)
    \/ \E r \in LikeReqs : UnlikeInc(r)

SpecLikesConcurrent == Init /\ [][NextLikesConcurrent]_vars


\* ------------------------------------------------------------------ claims
ViewerCount(channel_name) == get_viewer_count(Reg, channel_name)

\* C1: in every reachable state the cached viewer count of every channel is
\* >= 0 and equals the size of the channel's membership set.
C1_CountEqualsSetSize ==
    \A c \in DOMAIN active_connections :
        /\ c \in DOMAIN stream_viewers
        /\ stream_viewers[c] >= 0
        /\ stream_viewers[c] = Cardinality(active_connections[c])

\* C2: when a handler runs disconnect() for a connection that is not a member
\* of its channel (the broadcast cleanup has already removed it), the
\* membership sets and the viewer counts stay as they are.
C2_LeaveOfNonMemberIsNoOp ==
    [][\A w \in Conns :
          (/\ pc[w] = "recv" /\ ~wsOpen[w] /\ pc'[w] # "recv"
           /\ w \notin Members(active_connections, chan[w]))
          => /\ active_connections' = active_connections
             /\ stream_viewers' = stream_viewers]_vars

\* C3 (as claimed): the viewer count of a channel equals the number of Joins
\* minus the number of Leaves made on it so far, clamped at 0.
C3_CountIsJoinsMinusLeaves ==
    \A c \in WsChans : ViewerCount(c) = Max(0, joins[c] - leaves[c])

\* C3 (amended): the viewer count of a channel is never negative and equals
\* the counter that starts at 0, goes up by 1 at every Join and down by 1,
\* floored at 0 at that moment, at every Leave, in the order the calls ran.
C3_CountIsRunningClampedCounter ==
    \A c \in WsChans : ViewerCount(c) >= 0 /\ ViewerCount(c) = clamp[c]

\* C3 witness: joins and leaves of several tasks have interleaved so that a
\* Leave met the count at 0 and a later Join raised it again.
C3_Witness ==
    \E c \in WsChans :
        /\ joins[c] >= 2 /\ leaves[c] >= 2
        /\ ViewerCount(c) = 1
        /\ ViewerCount(c) # Max(0, joins[c] - leaves[c])

\* C4: a broadcast in which the send to some session raised returns normally,
\* has sent the message to every other session that was a member when it
\* began (and is still open), and leaves no failed session in the channel.
C4_BrokenSessionIsolated ==
    \A t \in Tasks :
        (bc[t].st \in {"returned", "raised"} /\ bc[t].failed # {})
        => /\ bc[t].st = "returned"
           /\ bc[t].failed \cap Members(active_connections, bc[t].chan) = {}
           /\ {c \in bc[t].start \ bc[t].failed : wsOpen[c]} \subseteq bc[t].sent

\* C5: no broadcast ends with an error, and a broadcast that has returned has
\* sent the message to every session that was a member when it began and is
\* still a connected member, whatever Joins and Leaves ran in between.
C5_BroadcastOverSnapshot ==
    \A t \in Tasks :
        /\ bc[t].st # "raised"
        /\ bc[t].st = "returned"
           => {c \in bc[t].start : wsOpen[c]
                  /\ c \in Members(active_connections, bc[t].chan)}
                 \subseteq bc[t].sent

\* C6: every session is sent the events of its channel in the order in which
\* broadcast() was invoked for them.
C6_DeliveryInInvocationOrder ==
    \A c \in Conns :
        \A i, j \in 1..Len(inbox[c]) :
            i < j => inbox[c][i].seq < inbox[c][j].seq

\* The persisted stream with the given id.
StreamById(stream_id) ==
    streams[FindOne(streams, [id |-> stream_id])]

\* C7: whenever a session has been sent the stream_ended event of an
\* end_stream request, the persisted stream of that request has is_live = false.
C7_PersistBeforeNotify ==
    \A c \in Conns :
        \A i \in 1..Len(inbox[c]) :
            inbox[c][i].msg.type = "stream_ended"
            => ~StreamById(req[inbox[c][i].by].stream_id).is_live

\* C7 witness: a viewer has been sent stream_ended.
C7_Witness ==
    \E c \in Conns :
        \E i \in 1..Len(inbox[c]) : inbox[c][i].msg.type = "stream_ended"

\* C8: every host has at most one persisted stream with is_live = true.
C8_OneLiveStreamPerHost ==
    \A u \in Users :
        Cardinality({i \in 1..Len(streams) :
                        streams[i].host_id = u /\ streams[i].is_live}) <= 1

Decided(r) == pc[r] \in {"fail400", "fail403", "insert", "done"}

\* C9 (as claimed): a create_stream request decided while its host has a
\* persisted live stream fails with 400 and persists nothing.
C9_AlreadyStreamingIs400 ==
    \A r \in CreateReqs :
        (Decided(r) /\ req[r].live) => pc[r] = "fail400"

\* C9 (amended): a create_stream request decided while its host has a
\* persisted live stream fails, with 400 if the user is not banned and with
\* 403 if the user is banned, and persists nothing: the persisted streams are
\* exactly those of the requests that succeeded.
C9_AlreadyStreamingFails ==
    /\ \A r \in CreateReqs :
          (Decided(r) /\ req[r].live)
          => pc[r] = (IF req[r].user.is_banned THEN "fail403" ELSE "fail400")
    /\ Len(streams) = Cardinality({r \in CreateReqs : pc[r] = "done"})

\* C9 witness: a request of a host with a live stream was refused with 400.
C9_Witness ==
    \E r \in CreateReqs :
        pc[r] = "fail400" /\ req[r].live /\ Len(streams) = 1

\* C10: a handler whose receive loop has ended, whatever ended it, has run
\* the exit sequence (disconnect, viewer_left broadcast, viewer_count update)
\* or is running it.
C10_ExitSequenceOnEveryEnd ==
    \A w \in Conns : pc[w] \notin {"crashed_loop", "crashed_exit"}

\* C11: a step in which a handler takes an inbound frame that is neither a
\* chat nor a reaction (another type, or malformed) changes nothing: nothing
\* is broadcast or persisted, no handler ends, no socket is closed and the
\* registry is as it was.
C11_OtherOrMalformedIgnored ==
    [][(evLeft' = evLeft - 1 /\ nmsg' = nmsg /\ nbcast' = nbcast)
       => /\ pc' = pc
          /\ wsOpen' = wsOpen
          /\ inbox' = inbox
          /\ stream_messages' = stream_messages
          /\ active_connections' = active_connections
          /\ stream_viewers' = stream_viewers]_vars

\* No handler or request has a step pending: every task is before its
\* start, waiting for a frame on an open socket, or has ended.
Quiescent ==
    /\ \A w \in Conns :
          /\ pc[w] \in {"idle", "recv", "done", "crashed_join", "crashed_loop",
                        "crashed_exit"}
          /\ pc[w] = "recv" => wsOpen[w]
    /\ \A r \in EndReqs : pc[r] \notin {"update", "bcast"}

\* C12: once all activity has ceased, the persisted viewer_count of every
\* stream equals the registry's viewer count of the stream's channel.
C12_PersistedCountConsistent ==
    Quiescent
    => \A i \in 1..Len(streams) :
          streams[i].viewer_count = ViewerCount(streams[i].channel_name)

\* C13: for the chat event a handler is broadcasting or has broadcast, exactly
\* one message with the event's id is persisted and carries the event's
\* content and timestamp, and once the broadcast has ended every session that
\* was a member when it began and is still a connected member (the sender
\* included) has been sent that event exactly once.
C13_ChatPersistedOnceThenDelivered ==
    \A w \in Conns :
        bc[w].msg.type = "chat"
        => /\ Cardinality({i \in 1..Len(stream_messages) :
                  /\ stream_messages[i].id = bc[w].msg.id
                  /\ stream_messages[i].content = bc[w].msg.content
                  /\ stream_messages[i].created_at = bc[w].msg.created_at}) = 1
           /\ bc[w].st \in {"returned", "raised"}
              => \A c \in bc[w].start :
                    (wsOpen[c] /\ c \in Members(active_connections, bc[w].chan))
                    => Cardinality({i \in 1..Len(inbox[c]) :
                                      inbox[c][i].msg = bc[w].msg}) = 1

\* C14: a handler that has begun to persist a chat message goes on to
\* broadcast the chat event, whether insert_one succeeds or fails, and does
\* not end.
C14_BroadcastDespitePersistFailure ==
    [][\A w \in Conns :
          (pc[w] = "insert" /\ pc'[w] # "insert")
          => /\ nbcast' = nbcast + 1
             /\ bc'[w].msg.type = "chat"
             /\ pc'[w] \in {"bcast", "recv"}]_vars

\* C15: every broadcast eventually ends and hands control back to its
\* caller, also when the send to a stalled session never completes.
C15_StalledSessionCannotStall ==
    \A t \in Tasks : (pc[t] = "bcast") ~> (pc[t] # "bcast")

\* C16: a broadcast never ends with an error because a send failed: when a
\* broadcast raises, the membership set has changed size under its loop.
C16_DeliveryFailureNotSurfaced ==
    [][\A t \in Tasks :
          (pc[t] = "bcast" /\ bc'[t].st = "raised")
          => \/ bc[t].stale
             \/ Cardinality(Members(active_connections, bc[t].chan))
                  # bc[t].used]_vars

\* C16 witness: a broadcast in which every send failed has returned to its
\* caller, which has gone on.
C16_Witness ==
    \E t \in Tasks :
        /\ bc[t].st = "returned"
        /\ bc[t].start # {} /\ bc[t].failed = bc[t].start /\ bc[t].sent = {}
        /\ pc[t] = ReturnPc(bc[t].ret)

\* C17: the step in which a handler joins its channel leaves the channel in
\* both maps, with the connection added to the members it had and the count
\* one above what get_viewer_count gave before.
C17_JoinAddsMemberAndOne ==
    [][\A w \in Conns :
          (pc[w] = "idle" /\ pc'[w] # "idle")
          => /\ chan'[w] \in DOMAIN active_connections'
             /\ chan'[w] \in DOMAIN stream_viewers'
             /\ active_connections'[chan'[w]]
                  = Members(active_connections, chan'[w]) \cup {w}
             /\ stream_viewers'[chan'[w]] = ViewerCount(chan'[w]) + 1]_vars

\* C17 witness: a first join has created a channel and a second join has
\* entered it, for a channel whose stream is no longer live.
C17_Witness ==
    \E c \in DOMAIN active_connections :
        /\ Cardinality(active_connections[c]) = 2
        /\ stream_viewers[c] = 2
        /\ \A i \in 1..Len(streams) :
              streams[i].channel_name = c => ~streams[i].is_live

\* C18: the two maps of the registry have the same channels and no channel
\* has an empty membership set.
C18_NoEmptyChannel ==
    /\ DOMAIN active_connections = DOMAIN stream_viewers
    /\ \A c \in DOMAIN active_connections : active_connections[c] # {}

\* C18 witness: a channel that was joined has lost its last member and is in
\* neither map.
C18_Witness ==
    \E c \in WsChans :
        /\ joins[c] >= 1 /\ leaves[c] >= 1
        /\ c \notin DOMAIN active_connections
        /\ c \notin DOMAIN stream_viewers

\* C19: get_viewer_count gives 0 for every channel the registry does not
\* hold and the channel stays out of the count map; the viewer_left event
\* sent for a channel removed by the leave carries the count 0.
C19_UnknownChannelCountsZero ==
    /\ \A c \in Prefixes \ DOMAIN active_connections :
          ViewerCount(c) = 0 /\ c \notin DOMAIN stream_viewers
    /\ \A w \in Conns :
          (bc[w].msg.type = "viewer_left" /\ bc[w].start = {})
          => bc[w].msg.viewer_count = 0

\* C19 witness: the count was asked for a channel removed after its last
\* member left, and the channel is still unknown.
C19_Witness ==
    \E w \in Conns :
        /\ bc[w].msg.type = "viewer_left" /\ bc[w].start = {}
        /\ chan[w] \notin DOMAIN active_connections

\* C20: the step in which a task calls broadcast() for a channel the
\* registry does not hold returns to the caller at once, sends nothing to
\* anyone and leaves the registry as the caller had it (after its own
\* disconnect(), for the viewer_left broadcast).
C20_BroadcastToEmptyChannelIsNoOp ==
    [][\A t \in Tasks :
          (nbcast' # nbcast /\ bc'[t].seq = nbcast' /\ bc'[t].start = {})
          => LET reg == IF bc'[t].ret = "left"
                        THEN disconnect(Reg, t, chan[t]) ELSE Reg
             IN  /\ bc'[t].st = "returned"
                 /\ bc'[t].sent = {} /\ bc'[t].failed = {}
                 /\ inbox' = inbox
                 /\ pc'[t] = ReturnPc(bc'[t].ret)
                 /\ active_connections' = reg.active_connections
                 /\ stream_viewers' = reg.stream_viewers]_vars

\* C20 witness: the viewer_left broadcast after the last member's leave and
\* the stream_ended broadcast of a stream with no viewers have both returned
\* and their callers have finished.
C20_Witness ==
    \E w \in Conns : \E r \in EndReqs :
        /\ bc[w].ret = "left" /\ bc[w].st = "returned" /\ bc[w].start = {}
        /\ pc[w] = "done"
        /\ bc[r].ret = "ended" /\ bc[r].st = "returned" /\ bc[r].start = {}
        /\ pc[r] = "done"

\* C21: every step that changes the membership set of a channel changes the
\* channel's count in the same step: a step that adds a member raises the
\* count by one, a step that removes members lowers it by at least as many
\* (floored at 0), so no task runs between the two updates.
C21_SetAndCountChangeTogether ==
    [][\A c \in Prefixes :
          LET before == Cardinality(Members(active_connections, c))
              after  == Cardinality(Members(active_connections', c))
              count  == ViewerCount(c)
              count1 == IF c \in DOMAIN stream_viewers'
                        THEN stream_viewers'[c] ELSE 0
          IN  /\ after > before => count1 = count + (after - before)
              /\ after < before => count1 <= Max(0, count - (before - after))
              /\ c \in DOMAIN active_connections'
                   <=> c \in DOMAIN stream_viewers']_vars

\* C21 witness: joins and a leave have run while another task's broadcast
\* was suspended in the middle of its loop.
C21_Witness ==
    \E c \in WsChans : \E t \in Tasks :
        /\ joins[c] >= 2 /\ leaves[c] >= 1
        /\ bc[t].st = "running" /\ bc[t].chan = c /\ bc[t].dirty

\* C22: a create_stream request of a banned user ends with 403 and changes
\* no collection; a request of a user who is not banned and has no live
\* stream when the check is made goes on to insert, and the insert adds
\* exactly one stream, live, with viewer_count 0 and the user as host.
C22_CreateStreamOutcomes ==
    [][\A r \in CreateReqs :
          /\ (pc[r] = "idle" /\ pc'[r] # "idle")
             => /\ streams' = streams
                /\ req'[r].user.is_banned <=> pc'[r] = "fail403"
                /\ req'[r].user.is_banned = users[req'[r].user.id].is_banned
          /\ (pc[r] = "check" /\ pc'[r] # "check")
             => /\ streams' = streams
                /\ ~HasLive(req[r].user.id) => pc'[r] = "insert"
          /\ (pc[r] = "insert" /\ pc'[r] # "insert")
             => /\ pc'[r] = "done"
                /\ Len(streams') = Len(streams) + 1
                /\ SubSeq(streams', 1, Len(streams)) = streams
                /\ LET doc == streams'[Len(streams')]
                   IN  /\ doc.is_live /\ doc.viewer_count = 0
                       /\ doc.host_id = req[r].user.id
                       /\ doc.id = req[r].stream_id
          /\ pc[r] = "fail403" => pc'[r] = "fail403"]_vars

\* C22 witness: a banned user's request has been refused with 403 and
\* another request has persisted its stream.
C22_Witness ==
    \E r1, r2 \in CreateReqs :
        /\ pc[r1] = "fail403" /\ req[r1].user.is_banned
        /\ pc[r2] = "done" /\ ~req[r2].user.is_banned
        /\ \E i \in 1..Len(streams) : streams[i].id = req[r2].stream_id

\* C23: end_stream answers 404 when no stream has the requested id and 403
\* when the requester is neither the stream's host nor an admin; in both
\* cases no stream document changes and no broadcast is started; for the
\* host or an admin the handler goes on and sets is_live to false before
\* anything else.
C23_EndStreamOutcomes ==
    [][\A r \in EndReqs :
          /\ (pc[r] = "idle" /\ pc'[r] # "idle")
             => LET q     == req'[r]
                    found == \E i \in 1..Len(streams) :
                                 streams[i].id = q.stream_id
                    allowed == \/ StreamById(q.stream_id).host_id = q.user.id
                               \/ users[q.user.id].is_admin
                IN  /\ streams' = streams
                    /\ nbcast' = nbcast /\ inbox' = inbox /\ bc' = bc
                    /\ pc'[r] = IF ~found THEN "fail404"
                               ELSE IF ~allowed THEN "fail403"
                               ELSE "update"
          /\ pc[r] \in {"fail404", "fail403"}
             => /\ pc'[r] = pc[r]
                /\ bc'[r].st = "none"
          /\ (pc[r] = "update" /\ pc'[r] # "update")
             => ~StreamById(req[r].stream_id)'.is_live]_vars

\* C23 witness: one request was refused with 403 while the stream is still
\* live, and a request of the host or an admin has ended the stream.
C23_Witness ==
    \/ \E r \in EndReqs :
          /\ pc[r] = "fail403"
          /\ StreamById(req[r].stream_id).is_live
          /\ StreamById(req[r].stream_id).host_id # req[r].user.id
    \/ \E r \in EndReqs :
          /\ pc[r] = "done"
          /\ ~StreamById(req[r].stream_id).is_live

\* C24: entering the channel, the handler joins, then broadcasts viewer_joined
\* with the count read right after its own join, then goes on to the sync of
\* the persisted count: the broadcast starts in the step of the join, and
\* when it ends the handler is at the sync and the event has been sent to
\* the joiner and to every earlier member that is still connected.
C24_JoinThenBroadcastThenSync ==
    [][\A w \in Conns :
          /\ (pc[w] = "idle" /\ pc'[w] # "idle")
             => /\ w \in Members(active_connections', chan'[w])
                /\ bc'[w].msg = ViewerJoined(w, stream_viewers'[chan'[w]])
                /\ bc'[w].start = Members(active_connections', chan'[w])
                /\ pc'[w] = "bcast"
          /\ (pc[w] = "bcast" /\ bc[w].ret = "joined" /\ pc'[w] # "bcast")
             => /\ pc'[w] = "sync1"
                /\ {c \in bc'[w].start \ bc'[w].failed : wsOpen[c]}
                      \subseteq bc'[w].sent]_vars

\* C25: at a disconnect the handler leaves, then broadcasts viewer_left with
\* the count read right after its own leave: the leaving session is not a
\* target of the broadcast, and when the broadcast ends every remaining
\* member that is still connected has been sent the event and the handler
\* is at the sync of the persisted count.
C25_LeaveThenBroadcast ==
    [][\A w \in Conns :
          /\ (pc[w] = "recv" /\ pc'[w] \notin {"recv", "insert"}
                /\ bc'[w].ret = "left")
             => /\ w \notin Members(active_connections', chan[w])
                /\ bc'[w].msg = ViewerLeft(w, get_viewer_count(
                      [active_connections |-> active_connections',
                       stream_viewers |-> stream_viewers'], chan[w]))
                /\ bc'[w].start = Members(active_connections', chan[w])
                /\ w \notin bc'[w].start
          /\ (pc[w] = "bcast" /\ bc[w].ret = "left" /\ pc'[w] # "bcast")
             => /\ pc'[w] = "sync2"
                /\ w \notin bc'[w].sent
                /\ {c \in bc'[w].start \ bc'[w].failed : wsOpen[c]}
                      \subseteq bc'[w].sent]_vars

\* C26: a reaction event starts a broadcast of the reaction to the members of
\* the sender's channel and is never persisted: neither the step that
\* receives a reaction nor a step that delivers one changes the persisted
\* chat messages, and every persisted message comes from a chat event.
C26_ReactionBroadcastNotPersisted ==
    [][/\ \A w \in Conns :
            (nbcast' # nbcast /\ bc'[w].seq = nbcast'
               /\ bc'[w].msg.type = "reaction")
            => /\ stream_messages' = stream_messages
               /\ bc'[w].msg = ReactionMsg(w, "heart")
               /\ bc'[w].chan = chan[w]
               /\ bc'[w].start = Members(active_connections, chan[w])
       /\ \A c \in Conns :
            (Len(inbox'[c]) > Len(inbox[c])
               /\ inbox'[c][Len(inbox'[c])].msg.type = "reaction")
            => stream_messages' = stream_messages
       /\ (\E w \in Conns : pc[w] = "recv" /\ evLeft' < evLeft
                              /\ pc'[w] # "insert")
            => stream_messages' = stream_messages
       /\ Len(stream_messages') <= nmsg']_vars

\* C26 witness: a reaction has been delivered to a session and no chat
\* message is persisted.
C26_Witness ==
    \E c \in Conns : \E i \in 1..Len(inbox[c]) :
        /\ inbox[c][i].msg.type = "reaction"
        /\ stream_messages = << >>

\* C27: distinct persisted streams have distinct channel names.
C27_ChannelNamesUnique ==
    \A i, j \in 1..Len(streams) :
        streams[i].id # streams[j].id
        => streams[i].channel_name # streams[j].channel_name

\* The persisted chat messages of a channel, in the order they were persisted.
ChannelMessages(c) == FindByStreamId(stream_messages, c)

C29_LikeUnlikeRoundTrip ==
    \A u \in Users : \A i \in 1..Len(videos) :
        LET v  == videos[i].id
            r0 == unlike_video(videos, likes, v, u)
            r1 == like_video(videos, likes, v, u)
            r2 == unlike_video(r1.videos, r1.likes, v, u)
            r3 == like_video(r1.videos, r1.likes, v, u)
        IN  FindOne(likes, [video_id |-> v, user_id |-> u]) = 0
            => /\ r1.out.status = 200
               /\ r1.out.likes_count = videos[i].likes_count + 1
               /\ r1.videos[i].likes_count = videos[i].likes_count + 1
               /\ r2.out.status = 200
               /\ r2.videos = videos /\ r2.likes = likes
               /\ r2.out.likes_count = videos[i].likes_count
               /\ r3.out = [status |-> 400, detail |-> "Already liked"]
               /\ r3.videos = r1.videos /\ r3.likes = r1.likes
               /\ r0.out = [status |-> 400, detail |-> "Not liked"]
               /\ r0.videos = videos /\ r0.likes = likes

\* C29 witness: a user has liked and then unliked the video while another
\* user's like is in place: the last response is a successful unlike, and the
\* counter equals the number of like records that remain.
C29_Witness ==
    /\ resp.op = "unlike_video" /\ resp.out.status = 200
    /\ Len(likes) = 1 /\ likes[1].user_id # resp.user
    /\ videos[1].likes_count = 1

\* C30: in every state, for two distinct users of whom the first does not
\* follow the second, follow succeeds and then unfollow succeeds and the two
\* bring the follow records and both counters back to what they were;
\* following oneself, following a second time and unfollowing without a
\* follow fail with status 400 and leave records and counters as they were.
C30_FollowUnfollowRoundTrip ==
    \A u, t \in Users :
        LET r0 == unfollow_user(users, follows, t, u)
            r1 == follow_user(users, follows, t, u)
            r2 == unfollow_user(r1.users, r1.follows, t, u)
            r3 == follow_user(r1.users, r1.follows, t, u)
            rs == follow_user(users, follows, u, u)
        IN  /\ rs.out = [status |-> 400, detail |-> "Cannot follow yourself"]
            /\ rs.users = users /\ rs.follows = follows
            /\ (u # t /\ FindOne(follows, [follower_id |-> u,
                                           following_id |-> t]) = 0)
               => /\ r1.out.status = 200
                  /\ r1.users[t].followers_count
                       = users[t].followers_count + 1
                  /\ r1.users[u].following_count
                       = users[u].following_count + 1
                  /\ r2.out.status = 200
                  /\ r2.users = users /\ r2.follows = follows
                  /\ r3.out = [status |-> 400, detail |-> "Already following"]
                  /\ r3.users = r1.users /\ r3.follows = r1.follows
                  /\ r0.out = [status |-> 400,
                               detail |-> "Not following this user"]
                  /\ r0.users = users /\ r0.follows = follows

\* C30 witness: a user has followed and then unfollowed another while a
\* third follow is in place: the last response is a successful unfollow and
\* the counters match the one record that remains.
C30_Witness ==
    /\ resp.op = "unfollow_user" /\ resp.out.status = 200
    /\ Len(follows) = 1
    /\ <<follows[1].follower_id, follows[1].following_id>>
         # <<resp.user, resp.target>>
    /\ users[follows[1].following_id].followers_count = 1
    /\ users[follows[1].follower_id].following_count = 1
    /\ users[resp.target].followers_count
         = (IF resp.target = follows[1].following_id THEN 1 ELSE 0)

\* C31: the persisted chat messages are append-only: every step keeps each
\* persisted message, with all its fields, at its place, and adds at most
\* one message at the end.
C31_ChatMessagesAppendOnly ==
    [][/\ Len(stream_messages') >= Len(stream_messages)
       /\ Len(stream_messages') <= Len(stream_messages) + 1
       /\ SubSeq(stream_messages', 1, Len(stream_messages))
            = stream_messages]_vars

\* C31 witness: a chat message was persisted, and afterwards a session has
\* left and the stream was ended; the message is still there.
C31_Witness ==
    \E r \in EndReqs : \E c \in WsChans :
        /\ Len(stream_messages) = 1
        /\ stream_messages[1].content = "hi"
        /\ pc[r] = "done" /\ leaves[c] >= 1
        /\ \E w \in Conns : bc[w].msg.type = "chat" /\ bc[w].seq < bc[r].seq

\* C32: no step removes a persisted stream or changes its id, host or
\* channel, and no step turns is_live from false to true; the update of an
\* end_stream request for a stream that is already ended changes nothing.
C32_StreamsKeptAndLiveMonotonic ==
    [][/\ Len(streams') >= Len(streams)
       /\ \A i \in 1..Len(streams) :
            /\ streams'[i].id = streams[i].id
            /\ streams'[i].host_id = streams[i].host_id
            /\ streams'[i].channel_name = streams[i].channel_name
            /\ ~streams[i].is_live => ~streams'[i].is_live
       /\ \A r \in EndReqs :
            (pc[r] = "update" /\ pc'[r] # "update"
               /\ ~StreamById(req[r].stream_id).is_live)
            => streams' = streams]_vars

\* C32 witness: the only persisted stream has been ended by two end_stream
\* requests in turn, and it is still there and not live.
C32_Witness ==
    \E r \in EndReqs :
        /\ pc[r] = "done" /\ nbcast = 2
        /\ Len(streams) = 1 /\ ~streams[1].is_live

\* C33: a step changes the membership set or the count of a channel only if
\* it is a step of a task working on that channel (a join or leave of a
\* connection of that channel, or the end of a broadcast to it), and a
\* session is only ever sent the message of a broadcast to its own channel.
C33_ChannelsIsolated ==
    [][/\ \A c \in Prefixes :
            (\/ Members(active_connections', c) # Members(active_connections, c)
             \/ get_viewer_count([active_connections |-> active_connections',
                                  stream_viewers |-> stream_viewers'], c)
                  # ViewerCount(c))
            => \E t \in Tasks :
                  /\ pc'[t] # pc[t]
                  /\ c = IF pc[t] = "bcast" THEN bc[t].chan ELSE chan'[t]
       /\ \A w \in Conns :
            Len(inbox'[w]) > Len(inbox[w])
            => LET m == inbox'[w][Len(inbox'[w])]
               IN  /\ bc[m.by].chan = chan[w]
                   /\ bc[m.by].seq = m.seq]_vars

\* C33 witness: the two connections are in different channels, a reaction
\* was broadcast and delivered in one of them, and the other channel still
\* has its one member, its count of 1 and no reaction delivered.
C33_Witness ==
    \E w1, w2 \in Conns :
        /\ chan[w1] = "a" /\ chan[w2] = "b"
        /\ bc[w1].msg.type = "reaction" /\ bc[w1].st = "returned"
        /\ \E i \in 1..Len(inbox[w1]) : inbox[w1][i].msg.type = "reaction"
        /\ active_connections = ("a" :> {w1}) @@ ("b" :> {w2})
        /\ stream_viewers = ("a" :> 1) @@ ("b" :> 1)
        /\ \A i \in 1..Len(inbox[w2]) : inbox[w2][i].by = w2

\* C34: the update of end_stream changes the is_live flag of the requested
\* stream and nothing else: registry and chat messages stay as they are;
\* the stream_ended broadcast changes the registry only when it ends, and
\* then only by removing the connections whose send failed; a connection
\* that is accepted becomes a member whether or not the stream is live.
C34_EndStreamChangesOnlyIsLive ==
    [][/\ \A r \in EndReqs :
            /\ (pc[r] = "update" /\ pc'[r] # "update")
               => /\ active_connections' = active_connections
                  /\ stream_viewers' = stream_viewers
                  /\ stream_messages' = stream_messages
                  /\ Len(streams') = Len(streams)
                  /\ \A i \in 1..Len(streams) :
                       streams'[i] =
                         [streams[i] EXCEPT !.is_live =
                            IF streams[i].id = req[r].stream_id
                            THEN FALSE ELSE @]
            /\ (pc[r] = "bcast" /\ pc'[r] # "bcast")
               => /\ streams' = streams
                  /\ stream_messages' = stream_messages
                  /\ \A c \in Prefixes :
                       /\ Members(active_connections', c)
                            \subseteq Members(active_connections, c)
                       /\ Members(active_connections, c)
                            \ Members(active_connections', c)
                            \subseteq bc'[r].failed
                  /\ bc'[r].failed = {} => /\ active_connections'
                                               = active_connections
                                           /\ stream_viewers' = stream_viewers
       /\ \A w \in Conns :
            (pc[w] = "idle" /\ pc'[w] # "idle")
            => w \in Members(active_connections', chan'[w])]_vars

\* C34 witness: after the stream_ended broadcast has returned, a session has
\* joined the channel of the ended stream and its chat message has been
\* persisted and delivered.
C34_Witness ==
    \E r \in EndReqs : \E w \in Conns :
        /\ pc[r] = "done" /\ bc[r].st = "returned"
        /\ ~StreamById(req[r].stream_id).is_live
        /\ chan[w] = req[r].channel_name
        /\ \E i \in 1..Len(inbox[w]) :
             /\ inbox[w][i].msg.type = "viewer_joined"
             /\ inbox[w][i].by = w
             /\ inbox[w][i].seq > bc[r].seq
        /\ Len(stream_messages) = 1 /\ stream_messages[1].user_id = w
        /\ \E i \in 1..Len(inbox[w]) : inbox[w][i].msg.type = "chat"

\* A like or unlike request is between its write to db.likes and its write
\* to likes_count.
BetweenWrites(r) == pc[r] \in {"like_inc", "unlike_find", "unlike_inc"}

\* C35: whenever no request is between its two writes, every video's
\* likes_count equals the number of like records of the video, and no user
\* has more than one like record for a video, also when like requests of one
\* user for one video have run concurrently.
C35_LikesCountMatchesRecords ==
    (\A r \in LikeReqs : ~BetweenWrites(r))
    => \A i \in 1..Len(videos) :
          /\ videos[i].likes_count
               = Cardinality({k \in 1..Len(likes) :
                                 likes[k].video_id = videos[i].id})
          /\ \A u \in Users :
               Cardinality({k \in 1..Len(likes) :
                               /\ likes[k].video_id = videos[i].id
                               /\ likes[k].user_id = u}) <= 1

=============================================================================
